---- MODULE Spec2Model ----
(***************************************************************************)
(* Model of the AI-helper plugin (src/unnamed/part_000, the variant with   *)
(* the Claude provider, lines 195-518): the two Provider clients, the      *)
(* AIManager and the four slash-command handlers, together with the host   *)
(* (document, current block, selection, notifications) and the vendor      *)
(* HTTP endpoints they talk to.                                            *)
(*                                                                         *)
(* Strings that the code takes apart or builds (provider names, texts,     *)
(* prompts, error messages) are sequences of tokens; JavaScript values     *)
(* that may be null or undefined are tagged records [t, v].                *)
(***************************************************************************)
EXTENDS Naturals, Sequences, FiniteSets

VARIABLES
    provider,      \* AIManager.provider (NoProvider models null)
    config,        \* AIManager.config (NoConfig models null)
    settings,      \* the host's settings store entry 'aiConfig'
    mainPc,        \* position of main(): "start", "initialize", "registered", "failed"
    thrown,        \* message of the error the last setProvider/initialize call threw
    inv,           \* the invocations: command handlers and direct executeAICommand calls
    document,      \* the host's page: a sequence of blocks
    currentBlock   \* uuid of the host's current block, 0 when there is none

vars == <<provider, config, settings, mainPc, thrown, inv, document, currentBlock>>

\* ---------------------------------------------------------------- bounds

\* direct executeAICommand calls that may be in flight together
MaxCalls == 1

\* command handlers that may be running together
MaxHandlers == 1

\* ------------------------------------------------------------ JS values

Str(s) == [t |-> "string", v |-> s]
Undefined == [t |-> "undefined", v |-> <<>>]
Null == [t |-> "null", v |-> <<>>]

\* a slip: only null and undefined count as no value
FalsyNullish(x) == x.t \in {"undefined", "null"}

\* JavaScript's !x for the values above
Falsy(x) == x.t \in {"undefined", "null"} \/ (x.t = "string" /\ x.v = <<>>)

NoError == <<>>

UpperCase == <<"A", "C", "D", "E", "I", "L", "O", "U">>
LowerCase == <<"a", "c", "d", "e", "i", "l", "o", "u">>

\* String.prototype.toLowerCase, letter by letter
ToLowerCase(s) ==
    [i \in 1..Len(s) |->
        IF \E k \in 1..Len(UpperCase) : UpperCase[k] = s[i]
        THEN LowerCase[CHOOSE k \in 1..Len(UpperCase) : UpperCase[k] = s[i]]
        ELSE s[i]]

WhiteSpace == {" ", "\n", "\t"}

RECURSIVE TrimStart(_)
TrimStart(s) ==
    IF s # <<>> /\ Head(s) \in WhiteSpace THEN TrimStart(Tail(s)) ELSE s

RECURSIVE TrimEnd(_)
TrimEnd(s) ==
    IF s # <<>> /\ s[Len(s)] \in WhiteSpace
    THEN TrimEnd(SubSeq(s, 1, Len(s) - 1))
    ELSE s

\* String.prototype.trim
Trim(s) == TrimEnd(TrimStart(s))

\* ------------------------------------------------------------ providers

NoProvider == [name |-> "", apiKey |-> "", baseUrl |-> ""]

OpenAIProvider(apiKey) ==
    [name |-> "OpenAI", apiKey |-> apiKey,
     baseUrl |-> "https://api.openai.com/v1/chat/completions"]

ClaudeProvider(apiKey) ==
    [name |-> "Claude", apiKey |-> apiKey,
     baseUrl |-> "https://api.anthropic.com/v1/messages"]

NoRequest == [url |-> "", authHeader |-> "", authValue |-> <<>>, model |-> "", prompt |-> <<>>]

\* the fetch(...) call of makeRequest: the request a provider object sends
FetchRequest(p, prompt) ==
    IF p.name = "OpenAI"
    THEN [url |-> p.baseUrl, authHeader |-> "Authorization",
          authValue |-> <<"Bearer ", p.apiKey>>, model |-> "gpt-3.5-turbo",
          prompt |-> prompt]
    ELSE [url |-> p.baseUrl, authHeader |-> "x-api-key",
          authValue |-> <<p.apiKey>>, model |-> "claude-2",
          prompt |-> prompt]

\* the prompt templates of the four provider operations
SummarizePrompt(text) ==
    <<"Please provide a concise summary of the following text:\n\n">> \o text
ImprovePrompt(text) ==
    <<"Please improve the following text while maintaining its core message:\n\n">> \o text
StylePrompt(text, style) ==
    <<"Please rewrite the following text in a ", style, " style:\n\n">> \o text
CompletePrompt(text) ==
    <<"Please complete the following text naturally:\n\n">> \o text

\* -------------------------------------------------------------- manager

NoConfig == [present |-> FALSE, provider |-> <<>>, apiKey |-> ""]
AIConfig(name, key) == [present |-> TRUE, provider |-> name, apiKey |-> key]

\* a slip: the name is compared as given, without toLowerCase
SetProviderCaseSensitive(p, providerName, apiKey) ==
    IF providerName = <<"o", "p", "e", "n", "a", "i">>
    THEN [provider |-> OpenAIProvider(apiKey), thrown |-> NoError]
    ELSE IF providerName = <<"c", "l", "a", "u", "d", "e">>
    THEN [provider |-> ClaudeProvider(apiKey), thrown |-> NoError]
    ELSE [provider |-> p, thrown |-> <<"Unsupported AI provider: ">> \o providerName]

\* a slip: the old provider is dropped before the name is looked at
SetProviderClearsFirst(p, providerName, apiKey) ==
    LET lower == ToLowerCase(providerName) IN
    IF lower = <<"o", "p", "e", "n", "a", "i">>
    THEN [provider |-> OpenAIProvider(apiKey), thrown |-> NoError]
    ELSE IF lower = <<"c", "l", "a", "u", "d", "e">>
    THEN [provider |-> ClaudeProvider(apiKey), thrown |-> NoError]
    ELSE [provider |-> NoProvider, thrown |-> <<"Unsupported AI provider: ">> \o providerName]

\* AIManager.setProvider: the provider after the call and the error it throws
SetProviderResult(p, providerName, apiKey) ==
    LET lower == ToLowerCase(providerName) IN
    IF lower = <<"o", "p", "e", "n", "a", "i">>
    THEN [provider |-> OpenAIProvider(apiKey), thrown |-> NoError]
    ELSE IF lower = <<"c", "l", "a", "u", "d", "e">>
    THEN [provider |-> ClaudeProvider(apiKey), thrown |-> NoError]
    ELSE [provider |-> p, thrown |-> <<"Unsupported AI provider: ">> \o providerName]

NotConfiguredMessage ==
    <<"AI provider not configured. Please set up your API key in settings.">>

Settled(outcome, error, op, via, request) ==
    [outcome |-> outcome, error |-> error, op |-> op, via |-> via, request |-> request]

\* the four operations of a provider object p, each up to the fetch call of
\* its makeRequest
SummarizeText(p, text) ==
    Settled("pending", NoError, "summarizeText", p, FetchRequest(p, SummarizePrompt(text)))
ImproveWriting(p, text) ==
    Settled("pending", NoError, "improveWriting", p, FetchRequest(p, ImprovePrompt(text)))
ChangeWritingStyle(p, text, style) ==
    Settled("pending", NoError, "changeWritingStyle", p,
            FetchRequest(p, StylePrompt(text, style)))
CompleteText(p, text) ==
    Settled("pending", NoError, "completeText", p, FetchRequest(p, CompletePrompt(text)))

\* a slip in the switch: the default case falls into 'complete'
RouteDefaultCompletes(p, command, text, style) ==
    CASE command = "summarize" -> SummarizeText(p, text)
      [] command = "improve" -> ImproveWriting(p, text)
      [] command = "style" ->
            ChangeWritingStyle(p, text, IF Falsy(style) THEN "professional" ELSE style.v[1])
      [] OTHER -> CompleteText(p, text)

\* the switch of executeAICommand
Route(p, command, text, style) ==
    CASE command = "summarize" -> SummarizeText(p, text)
      [] command = "improve" -> ImproveWriting(p, text)
      [] command = "style" ->
            ChangeWritingStyle(p, text, IF Falsy(style) THEN "professional" ELSE style.v[1])
      [] command = "complete" -> CompleteText(p, text)
      [] OTHER ->
            Settled("rejected", <<"Unknown command: ", command>>, "", NoProvider, NoRequest)

\* a slip: the check of this.provider is missing
DispatchUnguarded(p, command, text, style) == Route(p, command, text, style)

\* AIManager.executeAICommand up to its first suspension: with no provider it
\* rejects; otherwise the switch calls one operation of the active provider,
\* whose makeRequest calls fetch before anything yields.
Dispatch(p, command, text, style) ==
    IF p = NoProvider
    THEN Settled("rejected", NotConfiguredMessage, "", NoProvider, NoRequest)
    ELSE Route(p, command, text, style)

\* --------------------------------------------------- vendor responses

NoData == [hasChoices |-> FALSE, choices |-> <<>>, hasContent |-> FALSE, content |-> <<>>]

\* { choices: [ { message: { content: text } } ] }
OpenAIBody(text) ==
    [NoData EXCEPT !.hasChoices = TRUE,
                   !.choices = <<[hasMessage |-> TRUE, hasContent |-> TRUE, content |-> text]>>]

\* { content: [ { text: text } ] }
ClaudeBody(text) ==
    [NoData EXCEPT !.hasContent = TRUE,
                   !.content = <<[hasText |-> TRUE, text |-> text]>>]

\* { choices: [ { message: {} } ] } and { content: [ {} ] }
OpenAIBodyNoContent ==
    [NoData EXCEPT !.hasChoices = TRUE,
                   !.choices = <<[hasMessage |-> TRUE, hasContent |-> FALSE, content |-> <<>>]>>]
ClaudeBodyNoText ==
    [NoData EXCEPT !.hasContent = TRUE,
                   !.content = <<[hasText |-> FALSE, text |-> <<>>]>>]

NetworkError == [kind |-> "networkError", ok |-> FALSE, statusText |-> "", json |-> "", data |-> NoData]
HttpError(statusText) ==
    [kind |-> "http", ok |-> FALSE, statusText |-> statusText, json |-> "", data |-> NoData]
HttpOk(data) == [kind |-> "http", ok |-> TRUE, statusText |-> "OK", json |-> "object", data |-> data]
\* an ok response whose body has not been read yet
HttpOkHead == [kind |-> "http", ok |-> TRUE, statusText |-> "OK", json |-> "", data |-> NoData]
\* what response.json() settles with: a rejection, or the parsed data
InvalidBody == [json |-> "invalid", data |-> NoData]
Body(data) == [json |-> "object", data |-> data]
NoResponse == [kind |-> "", ok |-> FALSE, statusText |-> "", json |-> "", data |-> NoData]

Fulfilled(value) == [ok |-> TRUE, value |-> value, error |-> NoError]
Rejected(error) == [ok |-> FALSE, value |-> Undefined, error |-> error]

TypeErrorMessage == <<"TypeError: Cannot read properties of undefined">>

\* data.choices[0].message.content.trim()
OpenAIExtract(data) ==
    IF ~data.hasChoices THEN Rejected(TypeErrorMessage)
    ELSE IF data.choices = <<>> THEN Rejected(TypeErrorMessage)
    ELSE IF ~data.choices[1].hasMessage THEN Rejected(TypeErrorMessage)
    ELSE IF ~data.choices[1].hasContent THEN Rejected(TypeErrorMessage)
    ELSE Fulfilled(Str(Trim(data.choices[1].content)))

\* data.content[0].text
ClaudeExtract(data) ==
    IF ~data.hasContent THEN Rejected(TypeErrorMessage)
    ELSE IF data.content = <<>> THEN Rejected(TypeErrorMessage)
    ELSE IF ~data.content[1].hasText THEN Fulfilled(Undefined)
    ELSE Fulfilled(Str(data.content[1].text))

\* makeRequest when fetch settles: a rejected fetch and a response that is not
\* ok end it (the catch rethrows the error it caught); on an ok response it
\* calls response.json() and suspends again
AfterFetch(resp) ==
    IF resp.kind = "networkError" THEN Rejected(<<"Failed to fetch">>)
    ELSE IF ~resp.ok THEN Rejected(<<"API request failed: ", resp.statusText>>)
    ELSE Fulfilled(Undefined)

\* makeRequest when response.json() settles, in the provider object p that
\* called fetch
AfterJson(p, resp) ==
    IF resp.json = "invalid" THEN Rejected(<<"SyntaxError: Unexpected token in JSON">>)
    ELSE IF p.name = "OpenAI" THEN OpenAIExtract(resp.data)
    ELSE ClaudeExtract(resp.data)

\* makeRequest of provider object p on a response, head and body
MakeRequestSettle(p, resp) ==
    IF ~AfterFetch(resp).ok THEN AfterFetch(resp) ELSE AfterJson(p, resp)

\* ------------------------------------------------------------------ host

Block(uuid, content) == [uuid |-> uuid, content |-> content]

\* Editor.insertBlock(uuid, content, { after: true }): a new sibling block
\* directly after the block with that uuid
InsertBlock(doc, uuid, content) ==
    LET k == CHOOSE j \in 1..Len(doc) : doc[j].uuid = uuid IN
    SubSeq(doc, 1, k) \o <<Block(Len(doc) + 1, content)>> \o SubSeq(doc, k + 1, Len(doc))

HostErrorMessage == <<"Host call failed">>

NoSelectionMessage == <<"No text selected. Please select some text first.">>

\* the four command descriptors registered by main()
CommandKeys == {"summarize", "improve", "formal", "complete"}

CommandOf(key) ==
    CASE key = "summarize" ->
            [info |-> <<"Summarizing text...">>, command |-> "summarize", style |-> Undefined]
      [] key = "improve" ->
            [info |-> <<"Improving text...">>, command |-> "improve", style |-> Undefined]
      [] key = "formal" ->
            [info |-> <<"Changing style...">>, command |-> "style", style |-> Str(<<"formal">>)]
      [] key = "complete" ->
            [info |-> <<"Completing text...">>, command |-> "complete", style |-> Undefined]

\* App.showMsg(content, status)
ShowMsg(msgs, content, status) == Append(msgs, [content |-> content, status |-> status])

\* -------------------------------------------------------------- inputs

ApiKeys == {"sk-1", "sk-2"}

ProviderNames ==
    { <<"o", "p", "e", "n", "a", "i">>, <<"O", "p", "e", "n", "A", "I">>,
      <<"c", "l", "a", "u", "d", "e">>, <<"C", "L", "A", "U", "D", "E">>,
      <<"g", "e", "m", "i", "n", "i">> }

Texts == { <<"The quick brown fox jumps.">> }

Selections == { Null, Str(<<>>) } \cup { Str(t) : t \in Texts }

Completions == { <<"A fox jumps.">>, <<" ", "A fox", " ", "jumps.", "\n">> }

\* the (command, style) arguments of the direct executeAICommand calls
ManagerCalls ==
    { <<"summarize", Undefined>>, <<"improve", Undefined>>, <<"complete", Undefined>>,
      <<"style", Undefined>>, <<"style", Str(<<"casual">>)>>, <<"translate", Undefined>> }

\* how fetch settles
FetchOutcomes == { NetworkError, HttpError("Unauthorized"), HttpOkHead }

\* how response.json() settles
Bodies ==
    { InvalidBody, Body(NoData), Body(OpenAIBodyNoContent), Body(ClaudeBodyNoText) }
    \cup { Body(OpenAIBody(t)) : t \in Completions }
    \cup { Body(ClaudeBody(t)) : t \in Completions }

\* the calls made in the Manager specification: one that reaches a provider,
\* one that does not
LifecycleCalls == { <<"summarize", Undefined>>, <<"translate", Undefined>> }

\* how fetch and response.json() settle in the Manager specification
LifecycleFetchOutcomes == { HttpError("Unauthorized"), HttpOkHead }
LifecycleBodies == { Body(OpenAIBody(<<"A fox jumps.">>)), Body(ClaudeBody(<<"A fox jumps.">>)) }

SettingsValues ==
    { NoConfig,
      AIConfig(<<"O", "p", "e", "n", "A", "I">>, "sk-1"),
      AIConfig(<<"c", "l", "a", "u", "d", "e">>, "sk-2"),
      AIConfig(<<"g", "e", "m", "i", "n", "i">>, "sk-1") }

\* the stored configurations the Manager specification starts from
ManagerSettings ==
    { NoConfig,
      AIConfig(<<"c", "l", "a", "u", "d", "e">>, "sk-2"),
      AIConfig(<<"g", "e", "m", "i", "n", "i">>, "sk-1") }

\* ---------------------------------------------------------- invocations

Free ==
    [kind |-> "free", pc |-> "idle", key |-> "", command |-> "", text |-> Undefined,
     srcBlock |-> 0, called |-> FALSE, atCall |-> NoProvider, op |-> "",
     via |-> NoProvider, request |-> NoRequest, response |-> NoResponse,
     outcome |-> "none", result |-> Undefined, error |-> NoError,
     msgs |-> <<>>, target |-> 0, insertedAfter |-> 0]

\* the catch block of a command action: the error message becomes an error
\* notification and the action ends
Caught(c, error) ==
    [c EXCEPT !.pc = "done", !.error = error, !.msgs = ShowMsg(c.msgs, error, "error")]

\* the fields an executeAICommand call sets before it first yields
Called(c, command, d) ==
    [c EXCEPT !.called = TRUE, !.command = command, !.atCall = provider, !.op = d.op,
              !.via = d.via, !.request = d.request, !.outcome = d.outcome,
              !.error = d.error]

\* a slip: the response is read by whichever provider is active when it arrives
ReceiverActive(c) == provider

\* the provider object whose suspended makeRequest receives the response
Receiver(c) == c.via

\* ------------------------------------------------------------- actions

Slots == DOMAIN inv

\* invocations take the slots in order
NextFree(i) == inv[i].kind = "free" /\ \A j \in Slots : j < i => inv[j].kind # "free"

InitialDocument ==
    <<Block(1, Str(<<"The quick brown fox jumps.">>)), Block(2, Str(<<"Second block">>))>>

\* where the user may put the cursor: no block, or one of the two blocks
UserBlocks == {0, 1, 2}

\* the Manager as constructed (const aiManager = new AIManager())
Init ==
    /\ provider = NoProvider
    /\ config = NoConfig
    /\ settings \in ManagerSettings
    /\ mainPc = "start"
    /\ thrown = NoError
    /\ inv = [i \in 1..MaxCalls |-> Free]
    /\ document = InitialDocument
    /\ currentBlock = 1

\* the Manager as constructed, nothing stored in the settings
ClientInit ==
    /\ provider = NoProvider
    /\ config = NoConfig
    /\ settings = NoConfig
    /\ mainPc = "start"
    /\ thrown = NoError
    /\ inv = [i \in 1..MaxCalls |-> Free]
    /\ document = InitialDocument
    /\ currentBlock = 1

\* the plugin loaded into the host, before the host runs main()
CommandInit ==
    /\ provider = NoProvider
    /\ config = NoConfig
    /\ settings \in SettingsValues
    /\ mainPc = "start"
    /\ thrown = NoError
    /\ inv = [i \in 1..MaxHandlers |-> Free]
    /\ document = InitialDocument
    /\ currentBlock \in UserBlocks

\* main() up to the suspension inside aiManager.initialize(): settings.get is called
MainStart ==
    /\ mainPc = "start"
    /\ mainPc' = "initialize"
    /\ UNCHANGED <<provider, config, settings, thrown, inv, document, currentBlock>>

\* initialize() resumes with the stored config; when setProvider throws, main()
\* rejects before it registers the commands
InitializeResume ==
    /\ mainPc = "initialize"
    /\ IF settings.present
       THEN LET r == SetProviderResult(provider, settings.provider, settings.apiKey) IN
            /\ config' = settings
            /\ provider' = r.provider
            /\ thrown' = r.thrown
            /\ mainPc' = IF r.thrown = NoError THEN "registered" ELSE "failed"
       ELSE /\ mainPc' = "registered"
            /\ thrown' = NoError
            /\ UNCHANGED <<provider, config>>
    /\ UNCHANGED <<settings, inv, document, currentBlock>>

\* aiManager.setProvider(providerName, apiKey)
SetProvider(providerName, apiKey) ==
    LET r == SetProviderResult(provider, providerName, apiKey) IN
    /\ provider' = r.provider
    /\ thrown' = r.thrown
    /\ UNCHANGED <<config, settings, mainPc, inv, document, currentBlock>>

\* aiManager.executeAICommand(command, text, style) called directly
ExecuteAICommand(i, command, text, style) ==
    /\ NextFree(i)
    /\ LET d == Dispatch(provider, command, text, style)
           c == Called([inv[i] EXCEPT !.kind = "direct", !.text = Str(text)], command, d) IN
       inv' = [inv EXCEPT ![i] =
                  [c EXCEPT !.pc = IF d.outcome = "pending" THEN "fetch" ELSE "done"]]
    /\ UNCHANGED <<provider, config, settings, mainPc, thrown, document, currentBlock>>

\* the host runs a registered slash command: the action calls getSelectedText()
Invoke(i, key) ==
    /\ mainPc = "registered"
    /\ NextFree(i)
    /\ inv' = [inv EXCEPT ![i] =
                  [Free EXCEPT !.kind = "handler", !.pc = "getSelectedText", !.key = key,
                               !.srcBlock = currentBlock]]
    /\ UNCHANGED <<provider, config, settings, mainPc, thrown, document, currentBlock>>

\* Editor.getSelectedText() settles with the selection sel, or throws; the
\* action runs up to the fetch call
SelectionReturns(i, ok, sel) ==
    /\ inv[i].kind = "handler"
    /\ inv[i].pc = "getSelectedText"
    /\ LET c == IF ok THEN [inv[i] EXCEPT !.text = sel] ELSE inv[i]
           cmd == CommandOf(c.key)
           shown == [c EXCEPT !.msgs = ShowMsg(c.msgs, cmd.info, "info")]
           d == Dispatch(provider, cmd.command, c.text.v, cmd.style)
           called == Called(shown, cmd.command, d) IN
       inv' = [inv EXCEPT ![i] =
                  IF ~ok THEN Caught(c, HostErrorMessage)
                  ELSE IF Falsy(c.text) THEN Caught(c, NoSelectionMessage)
                  ELSE IF d.outcome = "rejected" THEN Caught(called, d.error)
                  ELSE [called EXCEPT !.pc = "fetch"]]
    /\ UNCHANGED <<provider, config, settings, mainPc, thrown, document, currentBlock>>

\* fetch settles with resp. A rejected fetch or a response that is not ok ends
\* makeRequest and executeAICommand, and the catch of a command action; on an
\* ok response makeRequest calls response.json() and suspends again
FetchReturns(i, resp) ==
    /\ inv[i].pc = "fetch"
    /\ LET c == [inv[i] EXCEPT !.response = resp]
           r == AfterFetch(resp)
           settled == [c EXCEPT !.outcome = "rejected", !.error = r.error] IN
       inv' = [inv EXCEPT ![i] =
                  IF r.ok THEN [c EXCEPT !.pc = "json"]
                  ELSE IF c.kind = "direct" THEN [settled EXCEPT !.pc = "done"]
                  ELSE Caught(settled, r.error)]
    /\ UNCHANGED <<provider, config, settings, mainPc, thrown, document, currentBlock>>

\* response.json() settles with body; makeRequest and executeAICommand finish,
\* and a command action goes on to call Editor.getCurrentBlock(), which the
\* host answers with the block that is current when it is called
JsonReturns(i, body) ==
    /\ inv[i].pc = "json"
    /\ LET c == [inv[i] EXCEPT !.response.json = body.json, !.response.data = body.data]
           r == AfterJson(Receiver(c), c.response)
           settled == [c EXCEPT !.outcome = IF r.ok THEN "resolved" ELSE "rejected",
                                !.result = r.value, !.error = r.error] IN
       inv' = [inv EXCEPT ![i] =
                  IF c.kind = "direct" THEN [settled EXCEPT !.pc = "done"]
                  ELSE IF ~r.ok THEN Caught(settled, r.error)
                  ELSE [settled EXCEPT !.pc = "getCurrentBlock", !.target = currentBlock]]
    /\ UNCHANGED <<provider, config, settings, mainPc, thrown, document, currentBlock>>

\* Editor.getCurrentBlock() settles; with a block the action calls insertBlock
GetCurrentBlockReturns(i, ok) ==
    /\ inv[i].pc = "getCurrentBlock"
    /\ LET c == inv[i] IN
       inv' = [inv EXCEPT ![i] =
                  IF ~ok THEN Caught([c EXCEPT !.target = 0], HostErrorMessage)
                  ELSE IF c.target = 0 THEN [c EXCEPT !.pc = "done"]
                  ELSE [c EXCEPT !.pc = "insertBlock"]]
    /\ UNCHANGED <<provider, config, settings, mainPc, thrown, document, currentBlock>>

\* Editor.insertBlock(block.uuid, result, { after: true }) settles
InsertBlockReturns(i, ok) ==
    /\ inv[i].pc = "insertBlock"
    /\ LET c == inv[i] IN
       IF ok
       THEN /\ document' = InsertBlock(document, c.target, c.result)
            /\ inv' = [inv EXCEPT ![i] = [c EXCEPT !.pc = "done", !.insertedAfter = c.target]]
       ELSE /\ document' = document
            /\ inv' = [inv EXCEPT ![i] = Caught(c, HostErrorMessage)]
    /\ UNCHANGED <<provider, config, settings, mainPc, thrown, currentBlock>>

\* the user moves to another block, or leaves editing
MoveCursor(b) ==
    /\ b # currentBlock
    /\ currentBlock' = b
    /\ UNCHANGED <<provider, config, settings, mainPc, thrown, inv, document>>

ManagerNext ==
    \/ MainStart
    \/ InitializeResume
    \/ \E n \in ProviderNames, k \in ApiKeys : SetProvider(n, k)
    \/ \E i \in Slots, a \in LifecycleCalls, t \in Texts :
           ExecuteAICommand(i, a[1], t, a[2])
    \/ \E i \in Slots, resp \in LifecycleFetchOutcomes : FetchReturns(i, resp)
    \/ \E i \in Slots, body \in LifecycleBodies : JsonReturns(i, body)

ClientNext ==
    \/ \E n \in ProviderNames, k \in ApiKeys : SetProvider(n, k)
    \/ \E i \in Slots, a \in ManagerCalls, t \in Texts :
           ExecuteAICommand(i, a[1], t, a[2])
    \/ \E i \in Slots, resp \in FetchOutcomes : FetchReturns(i, resp)
    \/ \E i \in Slots, body \in Bodies : JsonReturns(i, body)

CommandNext ==
    \/ MainStart
    \/ InitializeResume
    \/ \E i \in Slots, key \in CommandKeys : Invoke(i, key)
    \/ \E i \in Slots, ok \in BOOLEAN, sel \in Selections : SelectionReturns(i, ok, sel)
    \/ \E i \in Slots, resp \in FetchOutcomes : FetchReturns(i, resp)
    \/ \E i \in Slots, body \in Bodies : JsonReturns(i, body)
    \/ \E i \in Slots, ok \in BOOLEAN : GetCurrentBlockReturns(i, ok)
    \/ \E i \in Slots, ok \in BOOLEAN : InsertBlockReturns(i, ok)
    \/ \E b \in UserBlocks : MoveCursor(b)

\* the life of the Manager: main(), initialize, setProvider and calls
Spec == Init /\ [][ManagerNext]_vars

\* the Manager and the Provider clients under every call and every vendor
\* response, main() not yet run
ClientSpec == ClientInit /\ [][ClientNext]_vars

\* the plugin under the host: the registered commands
CommandSpec == CommandInit /\ [][CommandNext]_vars

\* -------------------------------------------------------------- claims

Supported == { OpenAIProvider(k) : k \in ApiKeys } \cup { ClaudeProvider(k) : k \in ApiKeys }

Commands == {"summarize", "improve", "style", "complete"}

\* an executeAICommand call has been made in slot i
Made(i) == inv[i].called

\* C1: a call of executeAICommand made while no provider is active is rejected
\* with the 'AI provider not configured' error, calls no provider operation
\* and sends no request, whatever the command key; and the step that makes the
\* call leaves the Manager without a provider.
C1_NotConfiguredFails ==
    /\ [](\A i \in Slots :
            (Made(i) /\ inv[i].atCall = NoProvider) =>
                /\ inv[i].pc = "done"
                /\ inv[i].outcome = "rejected"
                /\ inv[i].error = NotConfiguredMessage
                /\ inv[i].op = ""
                /\ inv[i].request = NoRequest)
    /\ [][\A i \in Slots :
            (provider = NoProvider /\ ~inv[i].called /\ inv'[i].called) =>
                provider' = NoProvider]_vars

\* a call with a known command key was made with no provider and has failed
C1_Witness ==
    \E i \in Slots :
        /\ Made(i) /\ inv[i].atCall = NoProvider /\ inv[i].command = "summarize"
        /\ inv[i].outcome = "rejected" /\ provider = NoProvider

\* what setProvider(n, k) must leave behind
SetProviderPost(n, k) ==
    IF ToLowerCase(n) = <<"o", "p", "e", "n", "a", "i">>
    THEN provider'.name = "OpenAI" /\ provider'.apiKey = k /\ thrown' = NoError
    ELSE IF ToLowerCase(n) = <<"c", "l", "a", "u", "d", "e">>
    THEN provider'.name = "Claude" /\ provider'.apiKey = k /\ thrown' = NoError
    ELSE provider' = provider /\ thrown' = <<"Unsupported AI provider: ">> \o n

\* C2: every setProvider(n, k) step with a supported name, in any letter case,
\* makes the provider of that vendor active; with any other name it throws
\* the unsupported-provider error and leaves the active provider as it was.
C2_SetProvider ==
    [][\A n \in ProviderNames, k \in ApiKeys : SetProvider(n, k) => SetProviderPost(n, k)]_vars

\* a setProvider with an unsupported name has failed on a configured Manager
C2_Witness ==
    /\ provider = ClaudeProvider("sk-1")
    /\ thrown = <<"Unsupported AI provider: ", "g", "e", "m", "i", "n", "i">>

\* C3: with a provider active, a call whose command key is none of summarize,
\* improve, style, complete is rejected with the unknown-command error, calls
\* no provider operation and sends no request.
C3_UnknownCommand ==
    \A i \in Slots :
        (Made(i) /\ inv[i].atCall # NoProvider /\ inv[i].command \notin Commands) =>
            /\ inv[i].pc = "done"
            /\ inv[i].outcome = "rejected"
            /\ inv[i].error = <<"Unknown command: ", inv[i].command>>
            /\ inv[i].op = ""
            /\ inv[i].request = NoRequest

\* an unknown command was called on a configured Manager
C3_Witness ==
    \E i \in Slots :
        Made(i) /\ inv[i].atCall \in Supported /\ inv[i].command = "translate"

\* resp is a success response in the shape of p's vendor, completion included
WellFormed(p, resp) ==
    /\ resp.kind = "http" /\ resp.ok /\ resp.json = "object"
    /\ IF p.name = "OpenAI"
       THEN /\ resp.data.hasChoices /\ resp.data.choices # <<>>
            /\ resp.data.choices[1].hasMessage /\ resp.data.choices[1].hasContent
       ELSE /\ resp.data.hasContent /\ resp.data.content # <<>>
            /\ resp.data.content[1].hasText

\* the completion text a well-formed response of p's vendor carries
CompletionText(p, resp) ==
    IF p.name = "OpenAI" THEN resp.data.choices[1].content ELSE resp.data.content[1].text

\* C6: for both provider variants, a call answered by a well-formed success
\* response resolves with exactly the completion text of the response, leading
\* and trailing whitespace trimmed.
C6_TrimmedCompletion ==
    \A i \in Slots :
        (inv[i].pc = "done" /\ inv[i].op # "" /\ WellFormed(inv[i].via, inv[i].response)) =>
            /\ inv[i].outcome = "resolved"
            /\ inv[i].result = Str(Trim(CompletionText(inv[i].via, inv[i].response)))

\* C7: the request of a call is the one the provider active at the call sends
\* (its endpoint, its credential), and the call settles as that provider
\* settles the response, whatever setProvider has done to the Manager since.
C7_CallTimeProvider ==
    \A i \in Slots :
        (Made(i) /\ inv[i].op # "") =>
            /\ inv[i].via = inv[i].atCall
            /\ inv[i].request.url = inv[i].atCall.baseUrl
            /\ inv[i].request.authValue[Len(inv[i].request.authValue)] = inv[i].atCall.apiKey
            /\ inv[i].pc = "done" =>
                 LET r == MakeRequestSettle(inv[i].atCall, inv[i].response) IN
                 /\ inv[i].outcome = (IF r.ok THEN "resolved" ELSE "rejected")
                 /\ inv[i].result = r.value
                 /\ inv[i].error = r.error

\* a call made to the OpenAI provider has resolved after setProvider has made
\* the Claude provider active
C7_Witness ==
    \E i \in Slots :
        /\ inv[i].pc = "done" /\ inv[i].outcome = "resolved"
        /\ inv[i].atCall = OpenAIProvider("sk-1")
        /\ inv[i].response = HttpOk(OpenAIBody(<<"A fox jumps.">>))
        /\ provider = ClaudeProvider("sk-2")

\* C9: the Manager is Unconfigured or Configured with one of the two
\* variants; a Configured Manager stays Configured; it leaves Unconfigured only
\* in a setProvider or initialize step that throws nothing; and no step of an
\* executeAICommand call changes the active provider.
C9_ManagerStates ==
    /\ [](provider \in {NoProvider} \cup Supported)
    /\ [][provider # NoProvider => provider' # NoProvider]_vars
    /\ [][(provider = NoProvider /\ provider' # NoProvider) =>
            /\ thrown' = NoError
            /\ inv' = inv
            /\ InitializeResume \/ \E n \in ProviderNames, k \in ApiKeys : SetProvider(n, k)]_vars
    /\ [][(inv' # inv) => provider' = provider]_vars

\* a Configured Manager after a failed setProvider and a failed call
C9_Witness ==
    /\ provider \in Supported
    /\ thrown # NoError
    /\ \E i \in Slots : inv[i].pc = "done" /\ inv[i].outcome = "rejected"
                        /\ inv[i].atCall \in Supported

\* ------------------------------------------------------ command claims

Handler(i) == inv[i].kind = "handler"

ErrorNotification(message) == [content |-> message, status |-> "error"]

ErrorCount(c) == Cardinality({k \in 1..Len(c.msgs) : c.msgs[k].status = "error"})

\* C4: a command whose getSelectedText answers null or the empty string ends
\* having shown the 'No text selected' error and nothing else: no in-progress
\* notification, no Manager call, no request, no block inserted.
C4_NoSelection ==
    \A i \in Slots :
        (Handler(i) /\ inv[i].text \in {Null, Str(<<>>)}) =>
            /\ inv[i].pc = "done"
            /\ inv[i].msgs = <<ErrorNotification(NoSelectionMessage)>>
            /\ ~inv[i].called
            /\ inv[i].op = ""
            /\ inv[i].request = NoRequest
            /\ inv[i].insertedAfter = 0

\* the 'formal' command has ended on an empty selection
C4_Witness ==
    \E i \in Slots :
        /\ Handler(i) /\ inv[i].key = "formal" /\ inv[i].text = Str(<<>>)
        /\ inv[i].pc = "done"

\* the invocation in slot i has met one of the failures: no selection, no
\* provider, a network error, a non-success status, a malformed response body,
\* a host call that threw
Failed(i) ==
    \/ inv[i].text \in {Null, Str(<<>>)}
    \/ inv[i].called /\ inv[i].atCall = NoProvider
    \/ inv[i].response.kind = "networkError"
    \/ inv[i].response.kind = "http" /\ ~inv[i].response.ok
    \/ inv[i].response.kind = "http" /\ inv[i].response.ok
         /\ ~WellFormed(inv[i].via, inv[i].response)
    \/ inv[i].error = HostErrorMessage

\* the command in slot i got its result and found no current block
NoBlock(i) == inv[i].outcome = "resolved" /\ inv[i].target = 0 /\ inv[i].error = NoError

\* C5: a command that has met a failure ends without having inserted a block,
\* having shown the error's message as its one error notification, the last
\* thing it shows. (The commands that find no current block are left to C10.)
C5_FailureLeavesDocument ==
    \A i \in Slots :
        (Handler(i) /\ inv[i].pc = "done" /\ Failed(i) /\ ~NoBlock(i)) =>
            /\ inv[i].insertedAfter = 0
            /\ inv[i].error # NoError
            /\ inv[i].msgs # <<>>
            /\ inv[i].msgs[Len(inv[i].msgs)] = ErrorNotification(inv[i].error)
            /\ ErrorCount(inv[i]) = 1

\* C8: a command invoked on a block, whose Manager call returned a text and
\* which has inserted it, has inserted it directly after that block, the one
\* that was current when the command was invoked.
C8_InsertedAfterSource ==
    \A i \in Slots :
        (Handler(i) /\ inv[i].pc = "done" /\ inv[i].outcome = "resolved"
           /\ inv[i].result.t = "string" /\ inv[i].srcBlock # 0
           /\ inv[i].insertedAfter # 0) =>
            /\ inv[i].insertedAfter = inv[i].srcBlock
            /\ \E k \in 1..(Len(document) - 1) :
                   /\ document[k].uuid = inv[i].srcBlock
                   /\ document[k + 1].content = inv[i].result

\* C10: a command that has ended, its Manager call having failed or returned
\* a text, has either inserted the text or shown one error notification,
\* never neither and never both.
C10_OneOutcome ==
    \A i \in Slots :
        (Handler(i) /\ inv[i].pc = "done"
           /\ (inv[i].outcome = "resolved" => inv[i].result.t = "string")) =>
            (inv[i].insertedAfter # 0) # (ErrorCount(inv[i]) = 1)

====
